---- MODULE Spec2Model ----
(***************************************************************************)
(* Model of ldd::cage::Keeper::Impl (src/ldd/cage/internal/keeper_impl.cc) *)
(* the adapter that drives a single-threaded ZooKeeper handle from an      *)
(* event loop.  The foreign zookeeper handle, the reactor wait             *)
(* (net::FdEvent) and the user callbacks are the environment: what they    *)
(* return is drawn from small sets.                                        *)
(*                                                                         *)
(* The second half models the wire framing of ldd::net                     *)
(* (src/ldd/net/internal/protocol.cc): Header::Builder and Header::Parser  *)
(* over a 16-byte buffer (specification HeaderSpec) and ExtHeader::Builder *)
(* and ExtHeader::Parser over the extension list (specification ExtSpec).  *)
(***************************************************************************)
EXTENDS Integers, Sequences, FiniteSets, Bags, TLC

\* ---------------------------------------------------------------- bounds
MaxCalls == 2        \* asynchronous calls issued in one behaviour
MaxOps   == 3        \* longest Multi batch

\* ------------------------------------------------------------ input sets
Paths      == {"/a", "/b"}
Watchers   == {0, 1}             \* 0 is the empty boost::function
WatchOpsNode  == {"Exists", "Get"}
WatchOpsChild == {"GetChildren", "GetChildrenWithStat"}
PlainOps   == {"AddAuth", "Create", "Delete", "Set", "GetAcl", "SetAcl"}
AsyncOps   == PlainOps \cup WatchOpsNode \cup WatchOpsChild \cup {"Multi"}

SubmitRcs   == {"ZOK", "ZBADARGUMENTS", "ZMARSHALLINGERROR"}
InterestRcs == {"ZOK", "ZBADARGUMENTS", "ZCONNECTIONLOSS"}
ProcessRcs  == {"ZOK", "ZBADARGUMENTS", "ZCONNECTIONLOSS"}
InitOutcomes == {"handle", "errno", "ENOMEM", "noerrno"}
Timevals    == {0, 7}            \* milliseconds reported by zookeeper_interest
ZkInterest  == {"ZOOKEEPER_READ", "ZOOKEEPER_WRITE"}
InterestSets == {ZkInterest}     \* what a successful zookeeper_interest asks

\* ------------------------------------------------------ program constants
FallbackMs      == 100     \* TimeDiff::Milliseconds(100)
TimeDiffDefault == 0       \* a default-constructed ldd::util::TimeDiff
NoFd            == -1      \* int fd = -1

VARIABLES
    zh_,             \* 0 is NULL, 1 is a handle zookeeper_init returned
    listener_,       \* TRUE iff the KeeperListener is non-empty
    node_watcher_,   \* path -> sequence of NodeWatcher
    child_watcher_,  \* path -> sequence of ChildWatcher
    event_,          \* the net::FdEvent: the one wait it can hold
    zk,              \* what the foreign library remembers
    calls,           \* bag of the records of the asynchronous calls so far
    aborted,         \* a CHECK or LOG(FATAL) ended the process
    destroyed,       \* ~Impl has run
    last,            \* what the latest operation did (for the properties)
    hdr,             \* the header buffer and what was done to it
    ext              \* the extension buffer and what was done to it

vars == <<zh_, listener_, node_watcher_, child_watcher_, event_, zk, calls,
          aborted, destroyed, last, hdr, ext>>

\* The three parts of the program do not share state.
keeper_vars == <<zh_, listener_, node_watcher_, child_watcher_, event_, zk,
                 calls, aborted, destroyed, last>>

NoHeader == [op |-> "none"]     \* no header buffer in play

NoExt == [op |-> "none"]        \* no extension buffer in play

\* ------------------------------------------------------------- helpers
EmptyMap == [p \in {} |-> <<>>]

\* waits counts the waits the reactor holds for the adapter
NoWait == [armed |-> FALSE, fd |-> NoFd, events |-> {}, timeout |-> 0,
           waits |-> 0]

\* The adapter's fields and the environment, threaded through one handler.
Cur == [zh |-> zh_, listener |-> listener_, node |-> node_watcher_,
        child |-> child_watcher_, event |-> event_, zk |-> zk,
        calls |-> calls, aborted |-> aborted,
        arms |-> 0, cancels |-> 0, closes |-> 0, armed_timeouts |-> <<>>,
        updates |-> 0]

Becomes(s) ==
    /\ zh_' = s.zh
    /\ listener_' = s.listener
    /\ node_watcher_' = s.node
    /\ child_watcher_' = s.child
    /\ event_' = s.event
    /\ zk' = s.zk
    /\ calls' = s.calls
    /\ aborted' = s.aborted
    /\ UNCHANGED <<hdr, ext>>

\* variant: the null test on zh_ is lost
IsOpen_NoNullTest(s) == TRUE

IsOpen(s) == s.zh # 0

IsUnrecoverable(s) == s.zk.unrecoverable

IsOk(rc) == rc = "ZOK"

IsBadArguments(rc) == rc = "ZBADARGUMENTS"

\* CallbackWrapper completion: the callback runs once and the record is freed.
Complete(c) ==
    IF c.rec = "released"
    THEN [c EXCEPT !.rec = "deleted", !.cb = c.cb + 1]
    ELSE c

\* the records the foreign handle owns
Pending(cs) == {c \in BagToSet(cs) : c.rec = "released"}

CompleteOne(cs, c) == (cs (-) SetToBag({c})) (+) SetToBag({Complete(c)})

RECURSIVE CompleteAll(_)
CompleteAll(cs) ==
    IF Pending(cs) = {} THEN cs
    ELSE CompleteAll(CompleteOne(cs, CHOOSE c \in Pending(cs) : TRUE))

\* zookeeper_close: the handle flushes the completions it still owns and
\* is gone, its state with it.
ZookeeperClose(s) ==
    [s EXCEPT !.zk.handles = s.zk.handles - 1,
              !.zk.closed_once = TRUE,
              !.zk.unrecoverable = FALSE,
              !.closes = s.closes + 1,
              !.calls = CompleteAll(s.calls)]

\* variant: the wait is left armed
ClearEvent_NoCancel(s) == s

ClearEvent(s) ==
    [s EXCEPT !.event = NoWait, !.cancels = s.cancels + 1]

\* variant: the listener is kept for the next Open
CloseOp_KeepsListener(s) ==
    IF s.zh # 0
    THEN LET c == ZookeeperClose(s)
         IN ClearEvent([c EXCEPT !.zh = 0,
                                 !.node = EmptyMap,
                                 !.child = EmptyMap])
    ELSE s

\* variant: the test of zh_ is missing
CloseOp_NoGuard(s) ==
    LET c == ZookeeperClose(s)
    IN ClearEvent([c EXCEPT !.zh = 0,
                            !.listener = FALSE,
                            !.node = EmptyMap,
                            !.child = EmptyMap])

CloseOp(s) ==
    IF s.zh # 0
    THEN LET c == ZookeeperClose(s)
         IN ClearEvent([c EXCEPT !.zh = 0,
                                 !.listener = FALSE,
                                 !.node = EmptyMap,
                                 !.child = EmptyMap])
    ELSE s

\* interest bits -> reactor flags, and back
ToFdEvents(interest) ==
    (IF "ZOOKEEPER_READ" \in interest THEN {"kReadable"} ELSE {})
    \cup (IF "ZOOKEEPER_WRITE" \in interest THEN {"kWritable"} ELSE {})

ToZkInterest(events) ==
    (IF "kReadable" \in events THEN {"ZOOKEEPER_READ"} ELSE {})
    \cup (IF "kWritable" \in events THEN {"ZOOKEEPER_WRITE"} ELSE {})

\* Interest(): <<status, fd, interest, timeout>> given what the handle answers
InterestOp(s, rc, fd, interest, tv) ==
    IF ~IsOpen(s)
    THEN [status |-> "kInvalidState", fd |-> NoFd, interest |-> {},
          timeout |-> TimeDiffDefault]
    ELSE [status |-> rc, fd |-> fd,
          interest |-> IF IsOk(rc) THEN interest ELSE {},
          timeout |-> IF IsOk(rc) THEN tv ELSE TimeDiffDefault]

AsyncWait(s, fd, events, timeout) ==
    [s EXCEPT !.event = [armed |-> TRUE, fd |-> fd, events |-> events,
                         timeout |-> timeout, waits |-> s.event.waits + 1],
              !.arms = s.arms + 1,
              !.armed_timeouts = Append(s.armed_timeouts, timeout)]

\* variant: the fallback for a zero timeout is missing
WaitTimeout_NoFallback(status, timeout) == timeout

\* the timeout UpdateEvent hands to AsyncWait
WaitTimeout(status, timeout) ==
    IF IsOk(status) THEN timeout
    ELSE IF timeout = 0 THEN FallbackMs ELSE timeout

\* variant: the failure branch arms the fallback wait itself and then
\* falls through to the common AsyncWait
UpdateEventOp_FallThrough(s, rc, fd, interest, tv) ==
    LET i == InterestOp(s, rc, fd, interest, tv)
        timeout == WaitTimeout(i.status, i.timeout)
        u == [s EXCEPT !.updates = s.updates + 1]
    IN IF ~IsOk(i.status) /\ IsBadArguments(i.status)
       THEN [s EXCEPT !.aborted = TRUE]
       ELSE IF ~IsOk(i.status)
       THEN AsyncWait(AsyncWait(u, i.fd, {}, timeout),
                      i.fd, ToFdEvents(i.interest), timeout)
       ELSE AsyncWait(u, i.fd, ToFdEvents(i.interest), timeout)

\* variant: a failed interest query ends UpdateEvent before the wait is armed
UpdateEventOp_StallOnFailure(s, rc, fd, interest, tv) ==
    LET i == InterestOp(s, rc, fd, interest, tv)
        timeout == WaitTimeout(i.status, i.timeout)
        u == [s EXCEPT !.updates = s.updates + 1]
    IN IF ~IsOk(i.status) /\ IsBadArguments(i.status)
       THEN [s EXCEPT !.aborted = TRUE]
       ELSE IF ~IsOk(i.status)
       THEN u
       ELSE AsyncWait(u, i.fd, ToFdEvents(i.interest), timeout)

\* UpdateEvent(): s.updates counts the executions that return
UpdateEventOp(s, rc, fd, interest, tv) ==
    LET i == InterestOp(s, rc, fd, interest, tv)
        timeout == WaitTimeout(i.status, i.timeout)
        u == [s EXCEPT !.updates = s.updates + 1]
    IN IF ~IsOk(i.status) /\ IsBadArguments(i.status)
       THEN [s EXCEPT !.aborted = TRUE]
       ELSE AsyncWait(u, i.fd, ToFdEvents(i.interest), timeout)

\* ----------------------------------------------------------------- Init
Init ==
    /\ zh_ = 0
    /\ listener_ \in BOOLEAN
    /\ node_watcher_ = EmptyMap
    /\ child_watcher_ = EmptyMap
    /\ event_ = NoWait
    /\ zk = [unrecoverable |-> FALSE, handles |-> 0, closed_once |-> FALSE,
             session_watch |-> FALSE]
    /\ calls = EmptyBag
    /\ aborted = FALSE
    /\ destroyed = FALSE
    /\ last = [op |-> "ctor"]
    /\ hdr = NoHeader
    /\ ext = NoExt

Alive == ~aborted /\ ~destroyed

\* -------------------------------------------------------------- actions
\* variant: Open returns true without calling UpdateEvent
OpenOp_NoUpdateEvent(s, out, rc, fd, interest, tv) ==
    IF out = "handle"
    THEN [st |-> [s EXCEPT !.zh = 1,
                           !.zk.handles = s.zk.handles + 1,
                           !.zk.unrecoverable = FALSE,
                           !.zk.session_watch = s.listener],
          ret |-> "true"]
    ELSE IF out = "errno"
    THEN [st |-> s, ret |-> "false"]
    ELSE [st |-> [s EXCEPT !.aborted = TRUE], ret |-> "abort"]

\* Open(dest, timeout) on a closed adapter: the state after it and what it
\* returns, given what zookeeper_init and zookeeper_interest answer
OpenOp(s, out, rc, fd, interest, tv) ==
    LET s1 == IF out = "handle"
              THEN [s EXCEPT !.zh = 1,
                             !.zk.handles = s.zk.handles + 1,
                             !.zk.unrecoverable = FALSE,
                             !.zk.session_watch = s.listener]
              ELSE s
    IN IF out = "handle"
       THEN LET s2 == UpdateEventOp(s1, rc, fd, interest, tv)
            IN [st |-> s2, ret |-> IF s2.aborted THEN "abort" ELSE "true"]
       ELSE IF out = "errno"
       THEN [st |-> s1, ret |-> "false"]
       ELSE [st |-> [s1 EXCEPT !.aborted = TRUE], ret |-> "abort"]

Open ==
    /\ Alive
    /\ zh_ = 0
    /\ \E out \in InitOutcomes, rc \in InterestRcs,
          interest \in InterestSets \cup {{}}, tv \in Timevals :
        /\ (out # "handle" => rc = "ZOK")
        /\ (out # "handle" \/ ~IsOk(rc) => interest = {} /\ tv = 0)
        /\ (out = "handle" /\ IsOk(rc) => interest # {})
        /\ \E r \in {OpenOp(Cur, out, rc, IF IsOk(rc) THEN 3 ELSE NoFd,
                             interest, tv)} :
              /\ Becomes(r.st)
              /\ last' = [op |-> "Open", out |-> out, ret |-> r.ret,
                          interest_rc |-> IF out = "handle" THEN rc ELSE "-",
                          tv |-> tv,
                          arms |-> r.st.arms, cancels |-> r.st.cancels,
                          closes |-> r.st.closes,
                          armed_timeouts |-> r.st.armed_timeouts,
                          updates |-> r.st.updates]
    /\ UNCHANGED destroyed

\* Open on an adapter that is already open: CHECK(!IsOpen()) fails
OpenWhileOpen ==
    /\ Alive
    /\ zh_ # 0
    /\ aborted' = TRUE
    /\ last' = [op |-> "Open", out |-> "-", ret |-> "abort",
                interest_rc |-> "-", tv |-> 0,
                arms |-> 0, cancels |-> 0, closes |-> 0,
                armed_timeouts |-> <<>>, updates |-> 0]
    /\ UNCHANGED <<zh_, listener_, node_watcher_, child_watcher_, event_, zk,
                   calls, destroyed, hdr, ext>>

Close ==
    /\ Alive
    /\ LET s == CloseOp(Cur)
       IN /\ Becomes(s)
          /\ last' = [op |-> "Close", was_open |-> (zh_ # 0),
                      arms |-> s.arms, cancels |-> s.cancels,
                      closes |-> s.closes]
    /\ UNCHANGED destroyed

\* ~Impl
Destroy ==
    /\ Alive
    /\ LET s == CloseOp(Cur)
       IN /\ Becomes(s)
          /\ last' = [op |-> "~Impl", was_open |-> (zh_ # 0),
                      arms |-> s.arms, cancels |-> s.cancels,
                      closes |-> s.closes]
    /\ destroyed' = TRUE

\* ---- asynchronous calls ------------------------------------------------
\* Op::MakeResult(&zops[idx]): the Op fills the native step with its own
\* request and returns a new result slot for it
MakeResult(op) ==
    [result |-> [result_of |-> op], zop |-> [request_of |-> op]]

\* variant: the loop stops one element early
RECURSIVE MultiLoop_StopsEarly(_, _, _, _)
MultiLoop_StopsEarly(ops, idx, results, zops) ==
    IF idx + 1 >= Len(ops)
    THEN [results |-> results, zops |-> zops]
    ELSE LET r == MakeResult(ops[idx + 1])
         IN MultiLoop_StopsEarly(ops, idx + 1, Append(results, r.result),
                                 Append(zops, r.zop))

\* the for loop of Multi: one result slot and one native step per element
RECURSIVE MultiLoop(_, _, _, _)
MultiLoop(ops, idx, results, zops) ==
    IF idx >= Len(ops)
    THEN [results |-> results, zops |-> zops]
    ELSE LET r == MakeResult(ops[idx + 1])
         IN MultiLoop(ops, idx + 1, Append(results, r.result),
                      Append(zops, r.zop))

\* variant: the path's list is overwritten by the new watcher
PushWatcher_Replace(m, path, watcher) ==
    [q \in DOMAIN m \cup {path} |-> IF q = path THEN <<watcher>> ELSE m[q]]

\* find-or-insert the path's list, then push_back
PushWatcher(m, path, watcher) ==
    LET m1 == IF path \in DOMAIN m THEN m
              ELSE [q \in DOMAIN m \cup {path} |->
                       IF q \in DOMAIN m THEN m[q] ELSE <<>>]
    IN [m1 EXCEPT ![path] = Append(m1[path], watcher)]

\* variant: the watcher is pushed before the submit's answer is looked at
RegisterWatch_BeforeSubmit(s, op, path, watcher, rc) ==
    IF op \in WatchOpsNode
    THEN [s EXCEPT !.node = PushWatcher(s.node, path, watcher)]
    ELSE IF op \in WatchOpsChild
    THEN [s EXCEPT !.child = PushWatcher(s.child, path, watcher)]
    ELSE s

\* after the submit: on success the watcher is pushed on the path's list
RegisterWatch(s, op, path, watcher, rc) ==
    IF IsOk(rc) /\ op \in WatchOpsNode
    THEN [s EXCEPT !.node = PushWatcher(s.node, path, watcher)]
    ELSE IF IsOk(rc) /\ op \in WatchOpsChild
    THEN [s EXCEPT !.child = PushWatcher(s.child, path, watcher)]
    ELSE s

\* variant: a rejected submit is tried once more before the callback runs
SubmitResult_Retry(rc) ==
    IF IsOk(rc)
    THEN [rec |-> "released", adapter_cb |-> 0, cb |-> 0, submits |-> 1]
    ELSE [rec |-> "destroyed", adapter_cb |-> 1, cb |-> 1, submits |-> 2]

\* variant: the return after cb.release() is missing, so an accepted call
\* falls through to failed: and runs the callback as well
SubmitResult_FallThrough(rc) ==
    IF IsOk(rc)
    THEN [rec |-> "released", adapter_cb |-> 1, cb |-> 1, submits |-> 1]
    ELSE [rec |-> "destroyed", adapter_cb |-> 1, cb |-> 1, submits |-> 1]

\* after the submit: cb.release() and return, or fall to failed: where the
\* callback runs and the auto_ptr frees the record
SubmitResult(rc) ==
    IF IsOk(rc)
    THEN [rec |-> "released", adapter_cb |-> 0, cb |-> 0, submits |-> 1]
    ELSE [rec |-> "destroyed", adapter_cb |-> 1, cb |-> 1, submits |-> 1]

\* the session is closed: straight to failed:, no record, no submit
ClosedResult == [rec |-> "none", adapter_cb |-> 1, cb |-> 1, submits |-> 0]

\* what the body of one asynchronous call does, given the submit's answer
AsyncCallOp(s, op, path, watcher, rc, ops) ==
    IF ~IsOpen(s)
    THEN [st |-> [s EXCEPT !.calls = s.calls (+) SetToBag({ClosedResult})],
          call |-> ClosedResult,
          status |-> "kInvalidState",
          submitted |-> FALSE, watch_fn |-> FALSE, count |-> 0,
          results |-> <<>>, zops |-> <<>>]
    ELSE LET loop == IF op = "Multi" THEN MultiLoop(ops, 0, <<>>, <<>>)
                     ELSE [results |-> <<>>, zops |-> <<>>]
             count == IF op = "Multi" THEN Len(ops) ELSE 0
             withWatch == RegisterWatch(s, op, path, watcher, rc)
             call == SubmitResult(rc)
         IN [st |-> [withWatch EXCEPT !.calls = s.calls (+) SetToBag({call})],
             call |-> call,
             status |-> IF IsOk(rc) THEN "-" ELSE rc,
             submitted |-> TRUE,
             watch_fn |-> (op \in WatchOpsNode \cup WatchOpsChild
                           /\ watcher # 0),
             count |-> count,
             results |-> loop.results, zops |-> loop.zops]

AsyncCallStep(op, path, watcher, rc, ops) ==
    \E r \in {AsyncCallOp(Cur, op, path, watcher, rc, ops)} :
       /\ Becomes(r.st)
       /\ last' = [op |-> op, path |-> path, watcher |-> watcher,
                   was_open |-> (zh_ # 0),
                   rc |-> IF zh_ # 0 THEN rc ELSE "-",
                   status |-> r.status, call |-> r.call,
                   submitted |-> r.submitted, watch_fn |-> r.watch_fn,
                   ops |-> ops, count |-> r.count,
                   results |-> r.results, zops |-> r.zops,
                   arms |-> r.st.arms, cancels |-> r.st.cancels,
                   closes |-> r.st.closes]
       /\ UNCHANGED destroyed

\* AddAuth, Create, Delete, Set, GetAcl, SetAcl
PlainCall ==
    /\ Alive
    /\ BagCardinality(calls) < MaxCalls
    /\ \E op \in PlainOps, rc \in SubmitRcs :
        /\ (zh_ = 0 => rc = "ZOK")
        /\ AsyncCallStep(op, "/a", 0, rc, <<>>)

\* Exists, Get, GetChildren, GetChildrenWithStat
WatchCall ==
    /\ Alive
    /\ BagCardinality(calls) < MaxCalls
    /\ \E op \in WatchOpsNode \cup WatchOpsChild, path \in Paths,
          watcher \in Watchers, rc \in SubmitRcs :
        /\ (zh_ = 0 => rc = "ZOK")
        /\ AsyncCallStep(op, path, watcher, rc, <<>>)

\* the vectors of Op* a caller may pass: n distinct Op objects, the i-th
\* named i
OpSeqs == {[i \in 1..n |-> i] : n \in 0..MaxOps}

Multi ==
    /\ Alive
    /\ BagCardinality(calls) < MaxCalls
    /\ \E ops \in OpSeqs, rc \in SubmitRcs :
        /\ (zh_ = 0 => rc = "ZOK")
        /\ AsyncCallStep("Multi", "/a", 0, rc, ops)

\* ---- the wait fires ---------------------------------------------------
\* WatchNode / WatchChild: the notified path's callbacks run in list order
\* and the path's registration is consumed.
EraseKey(m, path) == [q \in DOMAIN m \ {path} |-> m[q]]

FireWatch(s, kind, path) ==
    IF kind = "node" /\ path \in DOMAIN s.node
    THEN [s EXCEPT !.node = EraseKey(s.node, path)]
    ELSE IF kind = "child" /\ path \in DOMAIN s.child
    THEN [s EXCEPT !.child = EraseKey(s.child, path)]
    ELSE s

\* what zookeeper_process may deliver while it runs: nothing, the
\* completion of a pending record, or the notification of a watched path
Deliveries(s) ==
    {<<"none">>}
    \cup {<<"complete", c>> : c \in Pending(s.calls)}
    \cup {<<"watch", "node", p>> : p \in DOMAIN s.node}
    \cup {<<"watch", "child", p>> : p \in DOMAIN s.child}

Deliver(s, d) ==
    IF d[1] = "complete" THEN [s EXCEPT !.calls = CompleteOne(s.calls, d[2])]
    ELSE IF d[1] = "watch" THEN FireWatch(s, d[2], d[3])
    ELSE s

\* Process(events): the state after it and the status it returns.  What
\* zookeeper_process does with the events is its own business; a user
\* callback it runs may call Close (user_close).
ProcessOp(s, events, prc, d, unrec, user_close) ==
    IF ~IsOpen(s)
    THEN [st |-> s, status |-> "kInvalidState"]
    ELSE LET s1 == Deliver(s, d)
             s2 == [s1 EXCEPT !.zk.unrecoverable =
                                  s1.zk.unrecoverable \/ unrec]
             s3 == IF user_close THEN CloseOp(s2) ELSE s2
         IN [st |-> s3, status |-> prc]

\* the reactor has run the callback of a single-shot wait: that wait is
\* spent, any other it holds for the adapter stays
Spent(e) == IF e.waits > 1 THEN [e EXCEPT !.waits = e.waits - 1] ELSE NoWait

\* variant: a failed Process ends the loop
ShouldRearm_OnlyAfterOk(s, status) ==
    IsOk(status) /\ IsOpen(s) /\ ~IsUnrecoverable(s)

\* the test that decides whether HandleEvent calls UpdateEvent again
ShouldRearm(s, status) == IsOpen(s) /\ ~IsUnrecoverable(s)

HandleEventOp(s, fired, prc, d, unrec, user_close, irc, fd, interest, tv) ==
    LET s0 == [s EXCEPT !.event = Spent(s.event)]
        p  == ProcessOp(s0, ToZkInterest(fired), prc, d, unrec, user_close)
    IN IF ~IsOk(p.status) /\ IsBadArguments(p.status)
       THEN [p.st EXCEPT !.aborted = TRUE]
       ELSE IF ShouldRearm(p.st, p.status)
       THEN UpdateEventOp(p.st, irc, fd, interest, tv)
       ELSE p.st

HandleEventStep(fired, prc, d, unrec, user_close, irc, interest, tv) ==
    \E s \in {HandleEventOp(Cur, fired, prc, d, unrec, user_close, irc,
                              IF IsOk(irc) THEN 3 ELSE NoFd, interest, tv)} :
       /\ Becomes(s)
       /\ last' = [op |-> "HandleEvent",
                   process_rc |-> IF zh_ # 0 THEN prc ELSE "kInvalidState",
                   open_after |-> (s.zh # 0),
                   unrecoverable_after |-> s.zk.unrecoverable,
                   interest_rc |-> IF s.arms > 0 \/ s.aborted
                                   THEN irc ELSE "-",
                   tv |-> IF s.arms > 0 /\ IsOk(irc) THEN tv ELSE 0,
                   arms |-> s.arms, cancels |-> s.cancels,
                   closes |-> s.closes,
                   armed_timeouts |-> s.armed_timeouts,
                   updates |-> s.updates]
       /\ UNCHANGED destroyed

\* the reactor runs the callback of the armed wait, reporting the events
\* the wait asked for (none for a wait that asked for none and timed out)
HandleEvent ==
    /\ Alive
    /\ event_.armed
    /\ \E fired \in {event_.events}, prc \in ProcessRcs :
        IF IsBadArguments(prc)
        THEN HandleEventStep(fired, prc, <<"none">>, FALSE, FALSE,
                             "ZOK", {}, 0)
        ELSE \E d \in Deliveries(Cur), unrec \in BOOLEAN,
                user_close \in BOOLEAN :
            IF unrec /\ user_close
            THEN FALSE      \* the same as user_close alone: the handle is gone
            ELSE IF unrec \/ user_close
            THEN HandleEventStep(fired, prc, d, unrec, user_close,
                                 "ZOK", {}, 0)
            ELSE \E irc \in InterestRcs :
                IF IsOk(irc)
                THEN \E interest \in InterestSets, tv \in Timevals :
                        HandleEventStep(fired, prc, d, unrec, user_close,
                                        irc, interest, tv)
                ELSE HandleEventStep(fired, prc, d, unrec, user_close,
                                     irc, {}, 0)

Next == Open \/ OpenWhileOpen \/ Close \/ Destroy
        \/ PlainCall \/ WatchCall \/ Multi \/ HandleEvent

Spec == Init /\ [][Next]_vars

\* ======================================================== properties
IsCall == last.op \in AsyncOps

LastCall == last.call

NCalls == BagCardinality(calls)

WatchOps == WatchOpsNode \cup WatchOpsChild

ListOf(m, p) == IF p \in DOMAIN m THEN m[p] ELSE <<>>

\* C1: every asynchronous call has its callback invoked at most once at any
\* time, exactly once by the adapter when the session is closed or the submit
\* is rejected (the rejected record destroyed by the adapter), and not at all
\* by the adapter when the submit is accepted: the record is then released
\* untouched, and a completed record has been invoked exactly once, by the
\* completion machinery alone.
C1_ExactlyOnce ==
    /\ \A c \in BagToSet(calls) :
           /\ c.cb <= 1
           /\ c.rec \in {"none", "destroyed"} => c.adapter_cb = 1 /\ c.cb = 1
           /\ c.rec = "released" => c.adapter_cb = 0 /\ c.cb = 0
           /\ c.rec = "deleted" => c.adapter_cb = 0 /\ c.cb = 1
           /\ c.submits <= 1
    /\ IsCall =>
        /\ BagIn(LastCall, calls)
        /\ ~last.was_open => LastCall.rec = "none"
        /\ last.was_open /\ ~IsOk(last.rc) => LastCall.rec = "destroyed"
        /\ last.was_open /\ IsOk(last.rc) => LastCall.rec = "released"

C1_Witness ==
    /\ NCalls = 2
    /\ \E c \in BagToSet(calls) : c.rec = "deleted" /\ c.cb = 1
    /\ last.op = "Delete"
    /\ LastCall.rec = "destroyed"

\* C2: a call on a closed session runs its callback synchronously with
\* kInvalidState, submits nothing, creates no record and leaves both watch
\* maps empty.
C2_ClosedCall ==
    IsCall /\ ~last.was_open =>
        /\ last.status = "kInvalidState"
        /\ ~last.submitted
        /\ LastCall.submits = 0
        /\ LastCall.rec = "none"
        /\ LastCall.adapter_cb = 1
        /\ node_watcher_ = EmptyMap
        /\ child_watcher_ = EmptyMap

C2_Witness ==
    /\ last.op = "Exists"
    /\ ~last.was_open
    /\ last.watcher # 0
    /\ zk.closed_once

\* C3: a watch-bearing call whose submit fails, or that finds the session
\* closed, leaves both watch maps exactly as they were; only an accepted
\* submit adds the watch.
C3_NoWatchUnlessAccepted ==
    [][ (NCalls' = NCalls + 1 /\ last'.op \in WatchOps
         /\ ~(last'.was_open /\ IsOk(last'.rc)))
        => (node_watcher_' = node_watcher_ /\ child_watcher_' = child_watcher_)
      ]_vars

C3_Witness ==
    /\ last.op = "Get"
    /\ last.was_open
    /\ last.rc = "ZMARSHALLINGERROR"
    /\ last.watcher # 0
    /\ DOMAIN node_watcher_ = {"/b"}
    /\ last.path = "/a"

\* C4: an accepted Get/Exists appends its watcher to the end of the path's
\* node list and an accepted GetChildren/GetChildrenWithStat to the end of
\* the path's child list; every other list of both maps is unchanged.
C4_Accumulate ==
    [][ (NCalls' = NCalls + 1 /\ last'.op \in WatchOps
         /\ last'.was_open /\ IsOk(last'.rc))
        => LET p == last'.path
               w == last'.watcher
               isNode == last'.op \in WatchOpsNode
               m  == IF isNode THEN node_watcher_ ELSE child_watcher_
               m2 == IF isNode THEN node_watcher_' ELSE child_watcher_'
           IN /\ DOMAIN m2 = DOMAIN m \cup {p}
              /\ m2[p] = Append(ListOf(m, p), w)
              /\ \A q \in DOMAIN m \ {p} : m2[q] = m[q]
              /\ isNode => child_watcher_' = child_watcher_
              /\ ~isNode => node_watcher_' = node_watcher_
      ]_vars

C4_Witness ==
    /\ last.op = "Get"
    /\ last.was_open /\ IsOk(last.rc)
    /\ last.path \in DOMAIN node_watcher_
    /\ Len(node_watcher_[last.path]) = 2
    /\ node_watcher_[last.path][1] # node_watcher_[last.path][2]
    /\ node_watcher_[last.path][2] = last.watcher

\* C5: whenever the session is closed both watch maps are empty and no wait
\* is armed, so the wait's callback never runs on a closed adapter (Process
\* never answers kInvalidState inside HandleEvent); a Close leaves the
\* session closed, and a Close of an open session cancels the wait once.
C5_ClosedIsQuiet ==
    /\ zh_ = 0 =>
        /\ node_watcher_ = EmptyMap
        /\ child_watcher_ = EmptyMap
        /\ ~event_.armed
    /\ last.op = "HandleEvent" => last.process_rc # "kInvalidState"
    /\ last.op = "Close" => zh_ = 0 /\ (last.was_open => last.cancels = 1)

C5_Witness ==
    /\ last.op = "Close"
    /\ last.was_open
    /\ calls = EmptyBag
    /\ zh_ = 0
    /\ ~event_.armed

\* C6: the foreign handle is closed exactly once per successful Open (no
\* handle but the open one is left unclosed, none is closed twice), and a
\* Close or destructor that finds the
\* session closed calls neither zookeeper_close nor Cancel and changes
\* nothing.
C6_CloseIdempotent ==
    /\ [](zk.handles = IF zh_ # 0 THEN 1 ELSE 0)
    /\ [][ (last'.op \in {"Close", "~Impl"} /\ ~last'.was_open)
           => /\ last'.closes = 0
              /\ last'.cancels = 0
              /\ UNCHANGED <<zh_, listener_, node_watcher_, child_watcher_,
                             event_, zk, calls, aborted>>
         ]_vars

C6_Witness ==
    /\ last.op = "Close"
    /\ ~last.was_open
    /\ zk.closed_once
    /\ zk.handles = 0
    /\ calls = EmptyBag

\* C7: when HandleEvent returns, a wait is armed if and only if the session
\* is open and not unrecoverable, and it was armed by this HandleEvent; a
\* Process that failed does not change that.
C7_RearmIffOpenAndRecoverable ==
    (last.op = "HandleEvent" /\ ~aborted) =>
        /\ event_.armed <=> (zh_ # 0 /\ ~zk.unrecoverable)
        /\ last.arms = IF zh_ # 0 /\ ~zk.unrecoverable THEN 1 ELSE 0

C7_Witness ==
    /\ last.op = "HandleEvent"
    /\ last.process_rc = "ZCONNECTIONLOSS"
    /\ ~aborted
    /\ zh_ # 0 /\ ~zk.unrecoverable
    /\ event_.armed
    /\ last.arms = 1

\* C8 as stated: every armed wait has a strictly positive timeout.
C8_AllTimeoutsPositive ==
    event_.armed => event_.timeout > 0

\* C8 amended: a wait armed after a failed interest query has the positive
\* fallback timeout; a wait armed after a successful query has the timeout
\* the handle reported, zero included.
C8_PositiveAfterFailedInterest ==
    (last.op \in {"Open", "HandleEvent"} /\ last.arms > 0) =>
        /\ event_.armed
        /\ last.armed_timeouts = <<event_.timeout>>
        /\ ~IsOk(last.interest_rc) =>
              event_.timeout = FallbackMs /\ event_.timeout > 0
        /\ IsOk(last.interest_rc) => event_.timeout = last.tv

C8_Witness ==
    /\ last.op = "HandleEvent"
    /\ last.arms = 1
    /\ last.interest_rc = "ZCONNECTIONLOSS"
    /\ event_.armed
    /\ event_.timeout = FallbackMs

\* C9: an Open that returns, returns true exactly when zookeeper_init gave a
\* handle, and then the session is open with one wait armed by this Open;
\* when zookeeper_init fails with an errno other than ENOMEM, Open returns
\* false, the session stays closed, no wait is armed and the maps are
\* unchanged.
C9_Open ==
    /\ [](last.op = "Open" /\ last.ret # "abort" =>
            /\ last.ret = "true" <=> last.out = "handle"
            /\ last.ret = "true" =>
                  zh_ # 0 /\ event_.armed /\ last.arms = 1
            /\ last.out = "errno" =>
                  /\ last.ret = "false"
                  /\ zh_ = 0
                  /\ ~event_.armed
                  /\ last.arms = 0)
    /\ [][ (last'.op = "Open" /\ last'.out = "errno")
           => UNCHANGED <<zh_, node_watcher_, child_watcher_, event_>>
         ]_vars

C9_Witness ==
    /\ last.op = "Open"
    /\ last.ret = "true"
    /\ zk.closed_once
    /\ zh_ # 0
    /\ event_.armed

\* C10: a Multi on an open session submits as many native steps as it has
\* operation specifications, in their order, and its pending operation
\* holds one result slot per specification, the i-th made by the i-th.
C10_MultiSlots ==
    (last.op = "Multi" /\ last.was_open) =>
        LET n == Len(last.ops)
        IN /\ last.count = n
           /\ Len(last.results) = n
           /\ Len(last.zops) = n
           /\ \A i \in 1..n :
                /\ last.results[i] = MakeResult(last.ops[i]).result
                /\ last.zops[i] = MakeResult(last.ops[i]).zop

C10_Witness ==
    /\ last.op = "Multi"
    /\ last.was_open
    /\ last.ops = <<1, 2, 3>>
    /\ Len(last.results) = 3
    /\ ~IsOk(last.rc)

C17_FailedInterestStillArms ==
    (last.op \in {"Open", "HandleEvent"}
     /\ last.interest_rc \in InterestRcs \ {"ZOK", "ZBADARGUMENTS"})
        => /\ ~aborted
           /\ last.arms = 1
           /\ last.armed_timeouts = <<FallbackMs>>
           /\ zh_ # 0
           /\ event_.armed
           /\ event_.timeout = FallbackMs

\* an Open whose interest query lost the connection has armed the fallback
C17_Witness ==
    /\ last.op = "Open"
    /\ last.ret = "true"
    /\ last.interest_rc = "ZCONNECTIONLOSS"
    /\ event_.armed
    /\ event_.timeout = FallbackMs

\* C18: when the foreign handle rejects the submit of a call, the callback
\* runs once, inside the call, with exactly the status the submit returned;
\* the submit was made once; the session is still open and nothing was
\* closed or cancelled.  A rejected Multi of n steps is one such failure,
\* whatever n.
C18_RejectedSubmit ==
    (IsCall /\ last.was_open /\ ~IsOk(last.rc))
        => /\ last.status = last.rc
           /\ LastCall.submits = 1
           /\ LastCall.cb = 1
           /\ LastCall.adapter_cb = 1
           /\ zh_ # 0
           /\ last.closes = 0
           /\ last.cancels = 0

\* a Multi of three steps was rejected with a marshalling error and its
\* callback ran once with that status
C18_Witness ==
    /\ last.op = "Multi"
    /\ last.was_open
    /\ last.ops = <<1, 2, 3>>
    /\ last.rc = "ZMARSHALLINGERROR"
    /\ last.status = "ZMARSHALLINGERROR"
    /\ LastCall.cb = 1
    /\ zh_ # 0

\* C19: every entry of the node and child watch maps is a watch that was
\* installed on the foreign handle: no list holds an empty watcher, and the
\* watcher an accepted watch-bearing call leaves at the end of its path's
\* list is there exactly when the call passed a watch function.
C19_EntriesAreInstalledWatches ==
    /\ \A p \in DOMAIN node_watcher_ :
          \A i \in DOMAIN node_watcher_[p] : node_watcher_[p][i] # 0
    /\ \A p \in DOMAIN child_watcher_ :
          \A i \in DOMAIN child_watcher_[p] : child_watcher_[p][i] # 0
    /\ (last.op \in WatchOps /\ last.was_open /\ IsOk(last.rc)
        /\ last.watch_fn)
          => LET m == IF last.op \in WatchOpsNode THEN node_watcher_
                      ELSE child_watcher_
                 l == ListOf(m, last.path)
             IN l # <<>> /\ l[Len(l)] = last.watcher

\* an accepted Exists with an empty watcher passed no watch function and
\* has left the empty watcher as the only entry of its path
C19_Witness ==
    /\ last.op = "Exists"
    /\ last.was_open
    /\ IsOk(last.rc)
    /\ last.watcher = 0
    /\ ~last.watch_fn
    /\ ListOf(node_watcher_, last.path) = <<0>>

\* C20: a Close of an open session clears listener_ for good, so an Open
\* after it passes no session watch function to zookeeper_init; until such
\* a Close listener_ is what the constructor stored, and every Open that
\* gets a handle passes the session watch function exactly when listener_
\* is non-empty.
C20_CloseClearsListener ==
    /\ [](zk.closed_once => ~listener_)
    /\ [][ /\ ~zk'.closed_once => listener_' = listener_
           /\ (zh_ = 0 /\ zh_' # 0)
                 => /\ zk'.session_watch = listener_
                    /\ zk.closed_once => ~zk'.session_watch
         ]_vars

\* a second Open, after a Close, has got a handle and has passed no session
\* watch function
C20_Witness ==
    /\ last.op = "Open"
    /\ last.ret = "true"
    /\ zk.closed_once
    /\ zh_ # 0
    /\ ~zk.session_watch

\* ======================================================================
\* ldd::net::Header  (src/ldd/net/internal/protocol.cc, lines 9 to 98)
\* ======================================================================
\* A byte is 0..255 and a buffer is a sequence of bytes: buf_[k] is
\* buf[k + 1].  A uint16_t is 0..65535.  A uint32_t is the pair
\* <<high 16 bits, low 16 bits>>, so that every 32-bit value, the ones
\* above 2^31 included, is within the integers TLC computes with.

\* ------------------------------------------------------------ input sets
TypeBytes  == {165, 255}
Ids        == {<<258, 772>>, <<65535, 65535>>}  \* 0x01020304, 0xFFFFFFFF
BodyTypes  == {258, 65535}
BodySizes  == {66051, 16777215, 16777217}       \* the last needs 25 bits
ExtCounts  == {7, 255}
ExtLens    == {258, 65535}
FillBytes  == {0, 255}     \* what the caller's buffer holds before use
MagicBytes == {0, 76}      \* protocol.h fixes one byte; any will do

\* ------------------------------------------------------ program constants
kByteSize == 16            \* the header's size, checksum included
CrcLen    == 14            \* result.process_bytes(buf_, 14)
CrcInit   == 65535         \* boost::crc_ccitt_type starts from 0xFFFF
CrcPolyBits == {0, 5, 12}  \* and divides by x^16 + x^12 + x^5 + 1

kMagic == hdr.magic

\* ---------------------------------------------------------- byte access
At(buf, k) == buf[k + 1]

Put(buf, k, b) == [buf EXCEPT ![k + 1] = b]

ToU32(n) == <<n \div 65536, n % 65536>>

FromU32(w) == w[1] * 65536 + w[2]       \* only where w[1] < 2^15

\* v << 8 and v >> 8 on a uint32_t
Shl8(w) == <<(w[1] % 256) * 256 + (w[2] \div 256), (w[2] % 256) * 256>>

Shr8(w) == <<w[1] \div 256, (w[1] % 256) * 256 + (w[2] \div 256)>>

\* htons, htonl: the bytes of the value as they lie in memory afterwards,
\* most significant first; ntohs, ntohl read them back.
htons(v) == <<v \div 256, v % 256>>

ntohs(b) == b[1] * 256 + b[2]

htonl(w) == htons(w[1]) \o htons(w[2])

ntohl(b) == <<ntohs(<<b[1], b[2]>>), ntohs(<<b[3], b[4]>>)>>

Load(buf, k, n) == [i \in 1..n |-> At(buf, k + i - 1)]

RECURSIVE Store(_, _, _)
Store(buf, k, bytes) ==
    IF bytes = <<>> THEN buf
    ELSE Store(Put(buf, k, Head(bytes)), k + 1, Tail(bytes))

\* ------------------------------------------------- boost::crc_ccitt_type
Pow2(k) == 2 ^ k

TwoTo24 == Pow2(24)        \* a body size takes 24 bits

BitOf(v, k) == (v \div Pow2(k)) % 2

XorBit(r, k) == IF BitOf(r, k) = 1 THEN r - Pow2(k) ELSE r + Pow2(k)

RECURSIVE XorBits(_, _)
XorBits(r, ks) ==
    IF ks = {} THEN r
    ELSE LET k == CHOOSE x \in ks : TRUE
         IN XorBits(XorBit(r, k), ks \ {k})

\* one message bit, most significant bit of the register first
CrcBit(r, bit) ==
    IF BitOf(r, 15) # bit
    THEN XorBits((r % 32768) * 2, CrcPolyBits)
    ELSE (r % 32768) * 2

\* one message byte, its most significant bit first
CrcByte(r, b) ==
    LET s7 == CrcBit(r, BitOf(b, 7))
        s6 == CrcBit(s7, BitOf(b, 6))
        s5 == CrcBit(s6, BitOf(b, 5))
        s4 == CrcBit(s5, BitOf(b, 4))
        s3 == CrcBit(s4, BitOf(b, 3))
        s2 == CrcBit(s3, BitOf(b, 2))
        s1 == CrcBit(s2, BitOf(b, 1))
    IN CrcBit(s1, BitOf(b, 0))

\* process_bytes: bytes k to n - 1 of buf, from register r (a uint16_t)
RECURSIVE ProcessBytes(_, _, _, _)
ProcessBytes(r, buf, k, n) ==
    IF r \notin 0..65535 \/ k >= n THEN r
    ELSE ProcessBytes(CrcByte(r, At(buf, k)), buf, k + 1, n)

Checksum(buf) == ProcessBytes(CrcInit, buf, 0, CrcLen)

\* -------------------------------------------------------- Header::Parser
\* variant: the checksum is not compared
HeaderIsValid_MagicOnly(buf) == At(buf, 0) = kMagic

HeaderIsValid(buf) ==
    IF At(buf, 0) # kMagic THEN FALSE
    ELSE Checksum(buf) = ntohs(Load(buf, kByteSize - 2, 2))

type(buf) == At(buf, 1)

id(buf) == ntohl(Load(buf, 2, 4))

body_type(buf) == ntohs(Load(buf, 6, 2))

body_size(buf) == FromU32(Shr8(ntohl(Load(buf, 8, 4))))

ext_count(buf) == At(buf, 11)

ext_len(buf) == ntohs(Load(buf, 12, 2))

\* ------------------------------------------------------- Header::Builder
Build(buf) ==
    LET b == Put(buf, 0, kMagic)
    IN Store(b, kByteSize - 2, htons(Checksum(b)))

set_type(buf, t) == Put(buf, 1, t)

\* variant: the id is stored in the order of a little-endian host
set_id_HostOrder(buf, w) ==
    Store(buf, 2, <<w[2] % 256, w[2] \div 256, w[1] % 256, w[1] \div 256>>)

set_id(buf, w) == Store(buf, 2, htonl(w))

set_body_type(buf, v) == Store(buf, 6, htons(v))

\* variant: byte 11 is not put back
set_body_size_NoRestore(buf, n) == Store(buf, 8, htonl(Shl8(ToU32(n))))

set_body_size(buf, n) ==
    LET x == At(buf, 11)
    IN Put(Store(buf, 8, htonl(Shl8(ToU32(n)))), 11, x)

set_ext_count(buf, c) == Put(buf, 11, c)

set_ext_len(buf, v) == Store(buf, 12, htons(v))

\* ---------------------------------------------------------------- state
\* hdr.set remembers the value each setter was last given (-1 or <<>>
\* while it has not run), hdr.flipped is 0 or 1 + the index of the bit
\* that was flipped after Build, hdr.parsed is what the Parser answered.
Unset == [type |-> -1, id |-> <<>>, body_type |-> -1, body_size |-> -1,
          ext_count |-> -1, ext_len |-> -1]

AllSet(set) ==
    /\ set.type # -1 /\ set.id # <<>> /\ set.body_type # -1
    /\ set.body_size # -1 /\ set.ext_count # -1 /\ set.ext_len # -1

NotParsed == [done |-> FALSE]

ParseOf(buf) ==
    [done |-> TRUE, valid |-> HeaderIsValid(buf), type |-> type(buf),
     id |-> id(buf), body_type |-> body_type(buf),
     body_size |-> body_size(buf), ext_count |-> ext_count(buf),
     ext_len |-> ext_len(buf)]

HeaderInit ==
    /\ hdr \in {[op |-> "Builder", buf |-> [i \in 1..kByteSize |-> f],
                 magic |-> m, set |-> Unset, built |-> FALSE, flipped |-> 0,
                 parsed |-> NotParsed] : f \in FillBytes, m \in MagicBytes}
    /\ ext = NoExt
    /\ zh_ = 0
    /\ listener_ = FALSE
    /\ node_watcher_ = EmptyMap
    /\ child_watcher_ = EmptyMap
    /\ event_ = NoWait
    /\ zk = [unrecoverable |-> FALSE, handles |-> 0, closed_once |-> FALSE,
             session_watch |-> FALSE]
    /\ calls = EmptyBag
    /\ aborted = FALSE
    /\ destroyed = FALSE
    /\ last = [op |-> "none"]

\* a setter call (the fields are written before Build and not after it)
AfterSet(name, buf, set) ==
    [hdr EXCEPT !.op = name, !.buf = buf, !.set = set, !.parsed = NotParsed]

SetType ==
    /\ ~hdr.built
    /\ \E t \in TypeBytes :
          hdr' = AfterSet("set_type", set_type(hdr.buf, t),
                          [hdr.set EXCEPT !.type = t])
    /\ UNCHANGED <<keeper_vars, ext>>

SetId ==
    /\ ~hdr.built
    /\ \E w \in Ids :
          hdr' = AfterSet("set_id", set_id(hdr.buf, w),
                          [hdr.set EXCEPT !.id = w])
    /\ UNCHANGED <<keeper_vars, ext>>

SetBodyType ==
    /\ ~hdr.built
    /\ \E v \in BodyTypes :
          hdr' = AfterSet("set_body_type", set_body_type(hdr.buf, v),
                          [hdr.set EXCEPT !.body_type = v])
    /\ UNCHANGED <<keeper_vars, ext>>

SetBodySize ==
    /\ ~hdr.built
    /\ \E n \in BodySizes :
          hdr' = AfterSet("set_body_size", set_body_size(hdr.buf, n),
                          [hdr.set EXCEPT !.body_size = n])
    /\ UNCHANGED <<keeper_vars, ext>>

SetExtCount ==
    /\ ~hdr.built
    /\ \E c \in ExtCounts :
          hdr' = AfterSet("set_ext_count", set_ext_count(hdr.buf, c),
                          [hdr.set EXCEPT !.ext_count = c])
    /\ UNCHANGED <<keeper_vars, ext>>

SetExtLen ==
    /\ ~hdr.built
    /\ \E v \in ExtLens :
          hdr' = AfterSet("set_ext_len", set_ext_len(hdr.buf, v),
                          [hdr.set EXCEPT !.ext_len = v])
    /\ UNCHANGED <<keeper_vars, ext>>

HeaderBuild ==
    /\ ~hdr.built
    /\ AllSet(hdr.set)
    /\ hdr' = [hdr EXCEPT !.op = "Build", !.buf = Build(hdr.buf),
                          !.built = TRUE, !.parsed = NotParsed]
    /\ UNCHANGED <<keeper_vars, ext>>

\* one bit of the first 14 bytes changes between Build and the Parser
FlipBit(buf, i) == Put(buf, i \div 8, XorBit(At(buf, i \div 8), i % 8))

Corrupt ==
    /\ hdr.built
    /\ hdr.flipped = 0
    /\ \E i \in 0..(8 * CrcLen - 1) :
          hdr' = [hdr EXCEPT !.op = "Corrupt", !.buf = FlipBit(hdr.buf, i),
                             !.flipped = i + 1, !.parsed = NotParsed]
    /\ UNCHANGED <<keeper_vars, ext>>

\* Header::Parser on the buffer as it is: IsValid and every getter
HeaderParse ==
    /\ ~hdr.parsed.done
    /\ hdr' = [hdr EXCEPT !.op = "Parser", !.parsed = ParseOf(hdr.buf)]
    /\ UNCHANGED <<keeper_vars, ext>>

HeaderNext ==
    \/ SetType \/ SetId \/ SetBodyType \/ SetBodySize \/ SetExtCount
    \/ SetExtLen \/ HeaderBuild \/ Corrupt \/ HeaderParse

HeaderSpec == HeaderInit /\ [][HeaderNext]_vars

\* ----------------------------------------------------------------------
\* C11  Header round trip: once every field has been written with its
\* setter (the body size below 2^24) and Build has run, the Parser on the
\* same 16 bytes finds the header valid and every getter returns the
\* value its setter was given.
C11_RoundTrip ==
    (hdr.op = "Parser" /\ hdr.built /\ hdr.flipped = 0)
        => /\ Len(hdr.buf) = kByteSize
           /\ hdr.parsed.valid
           /\ hdr.parsed.type = hdr.set.type
           /\ hdr.parsed.id = hdr.set.id
           /\ hdr.parsed.body_type = hdr.set.body_type
           /\ (hdr.set.body_size < TwoTo24
                  => hdr.parsed.body_size = hdr.set.body_size)
           /\ hdr.parsed.ext_count = hdr.set.ext_count
           /\ hdr.parsed.ext_len = hdr.set.ext_len

\* a built header with the largest id and body size has been parsed
C11_Witness ==
    /\ hdr.op = "Parser" /\ hdr.built /\ hdr.flipped = 0
    /\ hdr.set.id = <<65535, 65535>>
    /\ hdr.set.body_size = TwoTo24 - 1
    /\ hdr.set.ext_count = 7
    /\ hdr.parsed.valid
    /\ hdr.parsed.body_size = TwoTo24 - 1

\* ----------------------------------------------------------------------
\* C12  set_body_size leaves byte 11 alone: a set_body_size(n) step changes
\* no byte of the buffer outside bytes 8 to 10, so ext_count() still
\* returns what set_ext_count stored before it, and for n < 2^24
\* body_size() returns n.
C12_BodySizeKeepsExtCount ==
    [][hdr'.op = "set_body_size"
          => /\ \A k \in (0..(kByteSize - 1)) \ {8, 9, 10} :
                    At(hdr'.buf, k) = At(hdr.buf, k)
             /\ ext_count(hdr'.buf) = ext_count(hdr.buf)
             /\ (hdr.set.ext_count # -1
                    => ext_count(hdr'.buf) = hdr.set.ext_count)
             /\ (hdr'.set.body_size < TwoTo24
                    => body_size(hdr'.buf) = hdr'.set.body_size)]_vars

\* set_ext_count(255) and then set_body_size(2^24 - 1), in a buffer whose
\* other bytes are still zero
C12_Witness ==
    /\ hdr.op = "set_body_size"
    /\ hdr.set.ext_count = 255
    /\ hdr.set.body_size = TwoTo24 - 1
    /\ ext_count(hdr.buf) = 255
    /\ body_size(hdr.buf) = TwoTo24 - 1
    /\ At(hdr.buf, 12) = 0

\* ----------------------------------------------------------------------
\* C13  Checksum sensitivity: a built header in which one bit of the first
\* 14 bytes was flipped, the checksum bytes left as built, is not valid.
C13_FlippedBitIsInvalid ==
    (hdr.op = "Parser" /\ hdr.flipped # 0) => ~hdr.parsed.valid

\* the Parser has rejected a header whose magic byte is intact and whose
\* last covered bit (the low bit of byte 13) was flipped
C13_Witness ==
    /\ hdr.op = "Parser"
    /\ hdr.flipped = 8 * CrcLen
    /\ At(hdr.buf, 0) = kMagic
    /\ ~hdr.parsed.valid

\* ======================================================================
\* ldd::net::ExtHeader  (src/ldd/net/internal/protocol.cc, lines 101 to 151)
\* ======================================================================
\* The extension list is a run of units of kUnitSize bytes, a type byte and
\* a length byte each.  ext.buf holds the bytes the Builder has written;
\* what lies before and behind them in memory is not the Builder's, and a
\* read there yields a byte of the reader's bad luck (JunkBytes).

\* ---------------------------------------------------------------- bounds
MaxItems == 3              \* lists of up to MaxItems units of any content

\* ------------------------------------------------------------ input sets
ItemTypes == {1, 200}
ItemLens  == {0, 1, 255}
JunkBytes == {0, 255}

\* ------------------------------------------------------ program constants
kUnitSize == 2             \* bytes of one unit
MaxCount  == 255           \* the largest uint8_t ext_count
NotWritten == -1           \* an output parameter GetExtItem left alone

\* ------------------------------------------------------------- the list
ItemType(buf, i) == buf[i * kUnitSize + 1]

ItemLen(buf, i) == buf[i * kUnitSize + 2]

\* the byte at ext_buf_ + pos
ReadAt(buf, pos, junk) == IF pos \in 0..(Len(buf) - 1) THEN buf[pos + 1] ELSE junk

\* every unit written so far is the unit <<t, l>>
Uniform(buf, n, t, l) ==
    \A i \in 0..(n - 1) : ItemType(buf, i) = t /\ ItemLen(buf, i) = l

\* ----------------------------------------------------- ExtHeader::Parser
\* variant: the accumulator is a uint8_t
RECURSIVE ExtIsValidLoop_Byte(_, _, _, _)
ExtIsValidLoop_Byte(len, i, n, buf) ==
    IF len \notin 0..65535 \/ i >= n THEN len
    ELSE IF n = i + 1 THEN (len + ReadAt(buf, i * kUnitSize + 1, 0)) % 256
    ELSE LET mid == (i + n) \div 2
         IN ExtIsValidLoop_Byte(ExtIsValidLoop_Byte(len, i, mid, buf),
                                mid, n, buf)

\* the for loop of IsValid, uint16_t len, over units i to n - 1: the
\* iterations of i..n-1 are those of i..mid-1 and then those of mid..n-1
RECURSIVE ExtIsValidLoop(_, _, _, _)
ExtIsValidLoop(len, i, n, buf) ==
    IF len \notin 0..65535 \/ i >= n THEN len
    ELSE IF n = i + 1 THEN (len + ReadAt(buf, i * kUnitSize + 1, 0)) % 65536
    ELSE LET mid == (i + n) \div 2
         IN ExtIsValidLoop(ExtIsValidLoop(len, i, mid, buf), mid, n, buf)

ExtIsValid(n, buf, declared) == ExtIsValidLoop(0, 0, n, buf) = declared

GetExtItem(n, buf, index, junk) ==
    IF index > n
    THEN [ret |-> FALSE, type |-> NotWritten, len |-> NotWritten]
    ELSE LET pos == index * kUnitSize
         IN [ret |-> TRUE, type |-> ReadAt(buf, pos, junk[1]),
             len |-> ReadAt(buf, pos + 1, junk[2])]

\* ---------------------------------------------------- ExtHeader::Builder
AddExtItem(e, t, l) ==
    [e EXCEPT !.buf = e.buf \o <<t, l>>, !.ext_count = e.ext_count + 1]

\* the arithmetic sum of the length bytes of units i to n - 1
RECURSIVE SumRange(_, _, _)
SumRange(buf, i, n) ==
    IF i >= n THEN 0
    ELSE IF n = i + 1 THEN ItemLen(buf, i)
    ELSE SumRange(buf, i, (i + n) \div 2) + SumRange(buf, (i + n) \div 2, n)

SumLens(buf, n) == SumRange(buf, 0, n)

\* declared lengths worth trying against a list whose lengths sum to x
DeclaredLens(x) == {x, x + 1, x % 256, 0} \cap (0..65535)

\* indexes worth trying against a list of n units
Indexes(n) == {-1, 0, n - 1, n, n + 1}

NoAnswer == [call |-> "none"]

ExtInit ==
    /\ ext = [op |-> "Builder", buf |-> <<>>, ext_count |-> 0, res |-> NoAnswer]
    /\ hdr = NoHeader
    /\ zh_ = 0
    /\ listener_ = FALSE
    /\ node_watcher_ = EmptyMap
    /\ child_watcher_ = EmptyMap
    /\ event_ = NoWait
    /\ zk = [unrecoverable |-> FALSE, handles |-> 0, closed_once |-> FALSE,
             session_watch |-> FALSE]
    /\ calls = EmptyBag
    /\ aborted = FALSE
    /\ destroyed = FALSE
    /\ last = [op |-> "none"]

\* Lists of any content up to MaxItems units; longer ones, up to the 255
\* units a header can announce, repeat one unit.  ext.res is the answer of
\* the one Parser call made on the list as it stands; the Parser writes
\* nothing to the list.
ExtAdd ==
    /\ ext.res = NoAnswer
    /\ \E t \in ItemTypes, l \in ItemLens :
          /\ \/ ext.ext_count < MaxItems
             \/ ext.ext_count < MaxCount /\ Uniform(ext.buf, ext.ext_count, t, l)
          /\ ext' = [AddExtItem(ext, t, l) EXCEPT !.op = "AddExtItem",
                                                  !.res = NoAnswer]
    /\ UNCHANGED <<keeper_vars, hdr>>

\* ExtHeader::Parser(ext_count, buf).IsValid(ext_len)
ExtValidate ==
    /\ ext.res = NoAnswer
    /\ \E declared \in DeclaredLens(SumLens(ext.buf, ext.ext_count)) :
          ext' = [ext EXCEPT !.op = "IsValid",
                     !.res = [call |-> "IsValid", ext_len |-> declared,
                              ret |-> ExtIsValid(ext.ext_count, ext.buf,
                                                 declared)]]
    /\ UNCHANGED <<keeper_vars, hdr>>

\* ExtHeader::Parser(ext_count, buf).GetExtItem(index, &type, &len)
ExtGet ==
    /\ ext.res = NoAnswer
    /\ \E index \in Indexes(ext.ext_count), j1 \in JunkBytes, j2 \in JunkBytes :
          ext' = [ext EXCEPT !.op = "GetExtItem",
                     !.res = [call |-> "GetExtItem", index |-> index,
                              out |-> GetExtItem(ext.ext_count, ext.buf,
                                                 index, <<j1, j2>>)]]
    /\ UNCHANGED <<keeper_vars, hdr>>

ExtNext == ExtAdd \/ ExtValidate \/ ExtGet

ExtSpec == ExtInit /\ [][ExtNext]_vars

\* ----------------------------------------------------------------------
\* C14  ExtHeader::Parser::IsValid(ext_len) is true if and only if the
\* arithmetic sum of the length bytes of the ext_count units equals
\* ext_len, for lists of 0 to 255 units; a declared length one above the
\* sum fails.
C14_ValidIffSum ==
    ext.op = "IsValid"
        => (ext.res.ret <=> SumLens(ext.buf, ext.ext_count) = ext.res.ext_len)

\* 255 units of length 255 have been validated against 65025
C14_Witness ==
    /\ ext.op = "IsValid"
    /\ ext.ext_count = MaxCount
    /\ ext.res.ext_len = MaxCount * 255
    /\ SumLens(ext.buf, ext.ext_count) = MaxCount * 255
    /\ ext.res.ret

\* ----------------------------------------------------------------------
\* C15  GetExtItem(index) is bounds-checked, index == ext_count included:
\* for 0 <= index < ext_count it returns true with the type and length
\* bytes of that unit, for every other index it returns false and writes
\* neither *type nor *len.
C15_BoundsChecked ==
    ext.op = "GetExtItem"
        => LET i == ext.res.index
               o == ext.res.out
           IN IF i \in 0..(ext.ext_count - 1)
              THEN /\ o.ret
                   /\ o.type = ItemType(ext.buf, i)
                   /\ o.len = ItemLen(ext.buf, i)
              ELSE /\ ~o.ret
                   /\ o.type = NotWritten
                   /\ o.len = NotWritten

\* GetExtItem(2) on a list of two units has returned true and has written
\* both outputs
C15_Witness ==
    /\ ext.op = "GetExtItem"
    /\ ext.ext_count = 2
    /\ ext.res.index = ext.ext_count
    /\ ext.res.out.ret
    /\ ext.res.out.type # NotWritten
    /\ ext.res.out.len # NotWritten

====
